---- MODULE Spec2Model ----
(***************************************************************************)
(* Raft build orchestrator: project discovery (Project.find / load),       *)
(* dependency resolution (createDependency / createRepository), the        *)
(* per-dependency pipeline (getDependency) and the top-level build.        *)
(***************************************************************************)
EXTENDS Integers, Sequences, FiniteSets, TLC

\* ------------------------------------------------------------------ bounds
\* Deepest starting directory the discovery is tried from.
MaxDepth == 2
\* Longest dependency list of a manifest.
MaxDeps == 2
\* Most calls of Path.createDirectory made on one path.
MaxCalls == 2
\* Longest candidate chain Project.find is followed to.
MaxChain == 5

\* ------------------------------------------------------------------ values
Segs == {"a", "b"}
\* The name the i-th entry of a manifest carries.
DepNames == <<"foo", "bar", "baz", "qux">>
NoType == ""
RepoTypes == {"git", NoType}
\* Repository types with one the tool does not implement.
AllRepoTypes == RepoTypes \cup {"svn"}
BuildSystems == {"cmake", "unknown"}

\* Rejection reasons. Project.find rejects with the value null; the other
\* reasons are the Error objects thrown or passed on by the handlers.
NullReason == "null"
ReadError == "ReadError"
ParseError == "SyntaxError"
UnknownBuildSystem == "unknown build system type"
UnknownRepository == "Unknown repository type"
ProcessFailed == "ProcessFailed"
NotImplemented == "deploy has not been implemented"
NoError == "none"

NoRoot == [abs |-> FALSE, segs |-> <<"<none>">>]
\* What stands for the path of a call that threw instead of returning one.
Thrown == [abs |-> FALSE, segs |-> <<"<thrown>">>]

\* ------------------------------------------------------------------ Path
\* A path is its root flag and its segments: "/" is [TRUE, <<>>], "." is
\* [FALSE, <<>>], "/a/b" is [TRUE, <<"a","b">>].
MkPath(abs, segs) == [abs |-> abs, segs |-> segs]

\* The strings npath.parse yields for root and dir; "" is EmptyStr.
EmptyStr == [empty |-> TRUE, abs |-> FALSE, segs |-> <<>>]
Str(p) == [empty |-> FALSE, abs |-> p.abs, segs |-> p.segs]

\* npath.join of a path with plain segments (no separator, no "." or ".."
\* among them), for which joining is concatenation.
append(p, segs) == MkPath(p.abs, p.segs \o segs)

parent(p) ==
  IF Len(p.segs) = 0 THEN p
  ELSE MkPath(p.abs, SubSeq(p.segs, 1, Len(p.segs) - 1))

\* npath.parse: root is "/" for an absolute path and "" otherwise; dir is
\* the text before the last segment ("/" for "/" and for "/a", "" for a
\* single relative segment).
parse(p) ==
  [root |-> IF p.abs THEN Str(MkPath(TRUE, <<>>)) ELSE EmptyStr,
   dir  |-> IF p.abs THEN Str(parent(p))
            ELSE IF Len(p.segs) <= 1 THEN EmptyStr ELSE Str(parent(p))]

isRoot(p) ==
  LET parsedPath == parse(p)
  IN parsedPath.root = parsedPath.dir /\ parsedPath.root # EmptyStr

\* Every directory from p up to the filesystem root, p included.
AncestorsOrSelf(p) == {MkPath(p.abs, SubSeq(p.segs, 1, k)) : k \in 0..Len(p.segs)}

\* mkdirp on the directories fsx: without an error the directory and all
\* above it exist afterwards (an existing directory is no error); with an
\* error nothing is made.
mkdirp(p, fsx, err) == IF err THEN fsx ELSE fsx \cup AncestorsOrSelf(p)

\* Path.createDirectory: true when mkdirp reported no error, false when it
\* reported one; fs is the directories that exist afterwards.
createDirectory(p, fsx, err) == [created |-> ~err, fs |-> mkdirp(p, fsx, err)]

\* ------------------------------------------------------------------ Project layout
RAFT_DIR == <<"Raft">>
RAFT_FILE == RAFT_DIR \o <<"raftfile.json">>
BUILD_DIR == <<"build">>
DEPENDENCY_DIR == RAFT_DIR \o <<"libs">>
DEPENDENCY_SRC_DIR == DEPENDENCY_DIR \o <<"src">>
DEPENDENCY_BUILD_DIR == DEPENDENCY_DIR \o <<"build">>
DEPENDENCY_INSTALL_DIR == DEPENDENCY_DIR \o <<"install">>
DEPENDENCY_LIB_DIR == <<"lib">>
DEPENDENCY_INC_DIR == <<"include">>

\* One source directory for every dependency.
dirForDependency_shared(r, name) == append(r, DEPENDENCY_SRC_DIR)

dirForDependency(r, name) == append(r, DEPENDENCY_SRC_DIR \o <<name>>)

\* The build directory keyed without the architecture.
dirForDependencyBuild_noArch(r, name, build) ==
  append(r, DEPENDENCY_BUILD_DIR \o <<build.platform, name>>)

dirForDependencyBuild(r, name, build) ==
  append(r, DEPENDENCY_BUILD_DIR \o <<build.platform, build.architecture, name>>)

dirForDependencyInstall(r, build) ==
  append(r, DEPENDENCY_INSTALL_DIR \o <<build.platform, build.architecture>>)

dirForDependencyLib(r, build) ==
  append(dirForDependencyInstall(r, build), DEPENDENCY_LIB_DIR)

\* The include directory of the host tree, whatever the build.
dirForDependencyInc_host(r, build) ==
  append(r, DEPENDENCY_INSTALL_DIR \o <<"host", "host">> \o DEPENDENCY_INC_DIR)

dirForDependencyInc(r, build) ==
  append(dirForDependencyInstall(r, build), DEPENDENCY_INC_DIR)

\* dirForBuild without the deploy check.
dirForBuild_ignoreDeploy(r, build) == append(r, BUILD_DIR)

\* dirForBuild throws for a deploy build.
dirForBuild(r, build) == IF build.isDeploy THEN Thrown ELSE append(r, BUILD_DIR)

\* ------------------------------------------------------------------ inputs
\* The members of BuildConfig.Platform and BuildConfig.Architecture as they
\* appear in a path.
PlatformHost == "host"
PlatformAndroid == "android"
ArchitectureHost == "host"
ArchitectureArmeabi == "armeabi"

\* The build settings the top-level build derives from its options.
buildSettingsFor(platformOption) ==
  IF platformOption = "ANDROID"
  THEN [isDeploy |-> FALSE, platform |-> PlatformAndroid, architecture |-> ArchitectureArmeabi]
  ELSE [isDeploy |-> FALSE, platform |-> PlatformHost, architecture |-> ArchitectureHost]

PlatformOptions == {"ANDROID", "HOST"}

\* The platform and architecture values of a Build, in any combination.
Platforms == {PlatformHost, PlatformAndroid}
Architectures == {ArchitectureHost, ArchitectureArmeabi}
Targets == [platform : Platforms, architecture : Architectures]
\* Dependency names a manifest may repeat.
Names == {"foo", "bar"}

RECURSIVE SeqsUpTo(_, _)
SeqsUpTo(S, n) ==
  IF n = 0 THEN {<<>>}
  ELSE LET shorter == SeqsUpTo(S, n - 1)
       IN shorter \cup {Append(q, x) : q \in shorter, x \in S}

\* Absolute starting directories, "/" included.
StartPaths == {MkPath(TRUE, q) : q \in SeqsUpTo(Segs, MaxDepth)}

\* Relative starting directories, "." included.
RelStartPaths == {MkPath(FALSE, q) : q \in SeqsUpTo(Segs, MaxDepth)}

\* The directory the builds with dependencies are started from.
BuildCwd == MkPath(TRUE, <<"a", "b">>)

Descriptor(name, type, buildSystem) ==
  [name |-> name, repository |-> [type |-> type], buildSystem |-> buildSystem]

\* Dependency lists of at most n entries, the name of the i-th drawn from
\* names[i], its repository type from types and its build system from systems.
RECURSIVE ManifestsOf(_, _, _, _)
ManifestsOf(n, names, types, systems) ==
  IF n = 0 THEN {<<>>}
  ELSE LET shorter == ManifestsOf(n - 1, names, types, systems)
       IN shorter \cup
          {Append(q, Descriptor(nm, t, b)) :
             q \in {m \in shorter : Len(m) = n - 1},
             nm \in names[n], t \in types, b \in systems}

\* Dependency lists of at most n entries, the i-th named DepNames[i].
Manifests(n) ==
  ManifestsOf(n, [i \in DOMAIN DepNames |-> {DepNames[i]}], RepoTypes, BuildSystems)

\* What reading <root>/Raft/raftfile.json gives: no file, text that is not
\* JSON, or a dependency list.
Missing == [kind |-> "missing", dependencies |-> <<>>]
Malformed == [kind |-> "malformed", dependencies |-> <<>>]
Json(descs) == [kind |-> "json", dependencies |-> descs]
RaftFiles == {Missing, Malformed} \cup {Json(q) : q \in Manifests(MaxDeps)}

\* ------------------------------------------------------------------ resolution
\* createRepository: any truthy type yields a git repository.
createRepository(repoDescriptor) ==
  IF repoDescriptor.type # NoType THEN NoError ELSE UnknownRepository

\* createDependency accepting any build system tag.
createDependency_lenient(dependencyDescriptor) ==
  createRepository(dependencyDescriptor.repository)

\* createDependency: the repository is created first, then the build
\* system is dispatched on. The value is the error thrown, or NoError.
createDependency(dependencyDescriptor) ==
  LET repo == createRepository(dependencyDescriptor.repository)
  IN IF repo # NoError THEN repo
     ELSE IF dependencyDescriptor.buildSystem = "cmake" THEN NoError
     ELSE UnknownBuildSystem

\* _.map(project.dependencies(), createDependency): descriptors are resolved
\* in manifest order and the first throw ends the map.
RECURSIVE mapCreateDependency(_)
mapCreateDependency(descs) ==
  IF descs = <<>> THEN NoError
  ELSE LET e == createDependency(Head(descs))
       IN IF e # NoError THEN e ELSE mapCreateDependency(Tail(descs))

\* ------------------------------------------------------------------ state
VARIABLES
  cwd,            \* Path.cwd(), where the build is started
  buildSettings,  \* the Build target of this invocation
  fs,             \* the directories that exist
  raftfile,       \* what the manifest file of the discovered root holds
  phase,          \* "find", "load", "then" (the handler after find ran), "notfound"
  paths,          \* Project.find: the candidate chain built so far
  root,           \* root of the Project object, NoRoot before it is made
  deps,           \* the manifest's descriptors once resolved to dependencies
  reliable,       \* per dependency: every command of its pipeline exits 0
  pc,             \* per dependency: position in getDependency
  started,        \* per dependency: stages whose call has been made
  completed,      \* per dependency: stages whose promise has resolved
  failedAt,       \* per dependency: the stage whose promise rejected
  projPc,         \* position in Project.build
  spawned,        \* the external processes spawned so far
  projExits,      \* how the commands of Project.build exited, in order
  result,         \* the promise the top-level build returns
  unit            \* a function called on its own: its inputs and what it returned

vars == <<cwd, buildSettings, fs, raftfile, phase, paths, root, deps, reliable,
          pc, started, completed, failedAt, projPc, projExits, spawned, result, unit>>

Pending == [state |-> "pending", reason |-> NoError]
Fulfilled == [state |-> "fulfilled", reason |-> NoError]
Rejected(e) == [state |-> "rejected", reason |-> e]

Running == {"Clone", "Configure", "Make", "Install"}
Creating == {"ConfigureMkdir", "MakeMkdir", "InstallMkdir"}
Settled == {"Ready", "Failed"}
ProjRunning == {"Configure", "Make"}
ProjCreating == {"ConfigureMkdir", "MakeMkdir"}
ProjFailed == {"ConfigureFailed", "MakeFailed"}

\* The build is started from any directory of a tree whose manifest holds no
\* dependency, or from BuildCwd with any manifest; the marker directory is
\* present in any of the directories above the start.
\* No function is called on its own.
NoUnit == [op |-> "none", dir |-> NoRoot, existed |-> FALSE, hasCwd |-> FALSE,
           calls |-> <<>>, pc |-> "Idle", exit |-> "none", tag |-> "none", log |-> <<>>]

\* A line handed to raftlog: its tag and what it says.
LogLine(tag, msg) == [tag |-> tag, msg |-> msg]
\* The command string of a System.execute called on its own, and the tag
\* option it may be given.
Command == "command"
TagOption == "tag"

\* System.execute up to its return: tag is options.tag or the command; with
\* a cwd the first line is logged under the command and createDirectory is
\* called, without one the line is logged under the tag.
execute(hasCwd, tagGiven, d) ==
  LET tag == IF tagGiven THEN TagOption ELSE Command
  IN IF hasCwd
     THEN [NoUnit EXCEPT !.op = "execute", !.hasCwd = TRUE, !.dir = d, !.tag = tag,
                         !.pc = "Mkdir", !.log = <<LogLine(Command, "Running in")>>]
     ELSE [NoUnit EXCEPT !.op = "execute", !.tag = tag, !.pc = "Start",
                         !.log = <<LogLine(tag, "Running in the current working directory")>>]

\* The handler chained on createDirectory logs when the value is true.
logCreated(u, created) ==
  IF created THEN Append(u.log, LogLine(u.tag, "Created")) ELSE u.log

\* The handler chained on exec runs on success only; nothing is chained on
\* its failure.
logExit(u, ok) ==
  IF ok THEN Append(u.log, LogLine(u.tag, "Finished successfullly")) ELSE u.log

\* Nothing has run yet.
NothingRun ==
  /\ paths = <<cwd>>
  /\ deps = <<>>
  /\ reliable = <<>>
  /\ pc = <<>>
  /\ started = <<>>
  /\ completed = <<>>
  /\ failedAt = <<>>
  /\ projPc = "Idle"
  /\ projExits = <<>>
  /\ spawned = {}
  /\ result = Pending

\* build() has been called.
Started == phase = "find" /\ unit = NoUnit /\ root = NoRoot /\ NothingRun

Init ==
  /\ \/ cwd \in StartPaths /\ raftfile \in {Missing, Malformed, Json(<<>>)}
     \/ cwd = BuildCwd /\ raftfile \in RaftFiles
  /\ buildSettings \in {buildSettingsFor(o) : o \in PlatformOptions}
  /\ \E M \in SUBSET AncestorsOrSelf(cwd) :
       fs = AncestorsOrSelf(cwd) \cup {append(A, RAFT_DIR) : A \in M}
  /\ Started

\* Project.find is given any starting path, absolute or relative to the
\* current directory.
InitFind ==
  /\ cwd \in StartPaths \cup RelStartPaths
  /\ raftfile \in {Missing, Json(<<>>)}
  /\ buildSettings = buildSettingsFor("HOST")
  /\ \E M \in SUBSET AncestorsOrSelf(cwd) :
       fs = AncestorsOrSelf(cwd) \cup {append(A, RAFT_DIR) : A \in M}
  /\ Started

\* The build is started in the project root, whose manifest holds valid
\* entries that may repeat a name.
InitDirs ==
  /\ cwd = BuildCwd
  /\ raftfile \in {Json(q) : q \in ManifestsOf(MaxDeps, [i \in DOMAIN DepNames |-> Names],
                                              {"git"}, {"cmake"})}
  /\ buildSettings \in {buildSettingsFor(o) : o \in PlatformOptions}
  /\ fs = AncestorsOrSelf(cwd) \cup {append(cwd, RAFT_DIR)}
  /\ Started

\* The build is started in the project root, whose manifest may name a
\* repository type the tool does not implement.
InitResolve ==
  /\ cwd = BuildCwd
  /\ raftfile \in {Json(q) : q \in ManifestsOf(MaxDeps, [i \in DOMAIN DepNames |-> {DepNames[i]}],
                                              AllRepoTypes, BuildSystems)}
  /\ buildSettings \in {buildSettingsFor(o) : o \in PlatformOptions}
  /\ fs = AncestorsOrSelf(cwd) \cup {append(cwd, RAFT_DIR)}
  /\ Started

\* ------------------------------------------------------------------ Project.find
exists(p) == p \in fs

\* firstMatch taking the last hit instead of the first.
firstMatch_last(ps) ==
  LET hits == {i \in DOMAIN ps : exists(append(ps[i], RAFT_DIR))}
  IN IF hits = {} THEN 0 ELSE CHOOSE i \in hits : \A j \in hits : i >= j

\* _.first(_.filter(paths, exists of <path>/Raft)): the index of the first
\* candidate holding the marker directory, 0 when there is none.
firstMatch(ps) ==
  LET hits == {i \in DOMAIN ps : exists(append(ps[i], RAFT_DIR))}
  IN IF hits = {} THEN 0 ELSE CHOOSE i \in hits : \A j \in hits : i <= j

\* notFound returning null instead of rejecting.
notFound_returnsNull == [state |-> "fulfilled", reason |-> NullReason]

\* The outcome of Project.find when no candidate matches.
notFound == Rejected(NullReason)

\* One iteration of the while loop of Project.find.
FindWalk ==
  /\ phase = "find"
  /\ Len(paths) < MaxChain
  /\ ~isRoot(paths[Len(paths)])
  /\ paths' = Append(paths, parent(paths[Len(paths)]))
  /\ UNCHANGED <<projExits, unit, cwd, buildSettings, fs, raftfile, phase, root, deps, reliable,
                 pc, started, completed, failedAt, projPc, spawned, result>>

\* The loop has ended: pick the project root and start reading its
\* manifest, or reject.
FindScan ==
  /\ phase = "find"
  /\ isRoot(paths[Len(paths)])
  /\ LET k == firstMatch(paths)
     IN IF k # 0
        THEN /\ root' = paths[k]
             /\ phase' = "load"
             /\ result' = result
        ELSE /\ root' = root
             /\ phase' = "notfound"
             /\ result' = notFound
  /\ UNCHANGED <<projExits, unit, cwd, buildSettings, fs, raftfile, paths, deps, reliable,
                 pc, started, completed, failedAt, projPc, spawned>>

\* ------------------------------------------------------------------ processes
\* A spawned process: who spawned it (0 is the project, i the i-th
\* dependency), the command, its working directory and its path arguments.
Proc(owner, cmd, wd, args) == [owner |-> owner, cmd |-> cmd, cwd |-> wd, args |-> args]

\* Git.getRepo: System.execute without cwd, so the clone runs in the
\* directory the build was started from.
gitClone(i, name) == Proc(i, "git clone", cwd, <<dirForDependency(root, name)>>)

\* The command a pipeline position runs, spawned once its working directory
\* has been created.
depCommand(i, name, at) ==
  LET buildLocation == dirForDependencyBuild(root, name, buildSettings)
  IN IF at = "ConfigureMkdir"
     THEN Proc(i, "cmake", buildLocation,
               <<dirForDependency(root, name), dirForDependencyInstall(root, buildSettings)>>)
     ELSE IF at = "MakeMkdir" THEN Proc(i, "make -j8", buildLocation, <<>>)
     ELSE Proc(i, "make install", buildLocation, <<>>)

projCommand(at) ==
  IF at = "ConfigureMkdir"
  THEN Proc(0, "cmake", dirForBuild(root, buildSettings),
            <<root, dirForDependencyInc(root, buildSettings),
              dirForDependencyLib(root, buildSettings), append(root, <<"install">>)>>)
  ELSE Proc(0, "make -j8", dirForBuild(root, buildSettings), <<>>)

\* ------------------------------------------------------------------ getDependency
StageOf(at) ==
  IF at = "Clone" THEN "download"
  ELSE IF at \in {"ConfigureMkdir", "Configure", "MakeMkdir", "Make"} THEN "build"
  ELSE IF at \in {"InstallMkdir", "Install"} THEN "install"
  ELSE "none"

\* getDependency calling build without waiting for the download.
getDependency_noWait == [pc |-> "ConfigureMkdir", started |-> {"download", "build"}]

\* Where a pipeline stands once getDependency has been called: the download
\* has been started and nothing else.
getDependency == [pc |-> "Clone", started |-> {"download"}]

\* A build stage that goes from configure straight to install.
thenNext_skipMake(at) ==
  IF at = "Clone" THEN "ConfigureMkdir"
  ELSE IF at = "Configure" THEN "InstallMkdir"
  ELSE "Ready"

\* The position a pipeline moves to when the command it waits for exits 0.
thenNext(at) ==
  IF at = "Clone" THEN "ConfigureMkdir"
  ELSE IF at = "Configure" THEN "MakeMkdir"
  ELSE IF at = "Make" THEN "InstallMkdir"
  ELSE "Ready"

\* createDirectory has settled: the command is spawned.
spawnNext(at) ==
  IF at = "ConfigureMkdir" THEN "Configure"
  ELSE IF at = "MakeMkdir" THEN "Make"
  ELSE "Install"

\* Promise.map settling on the first fulfilled pipeline.
PromiseMapFulfilled_any(pcs) == DOMAIN pcs = {} \/ \E i \in DOMAIN pcs : pcs[i] = "Ready"
\* Promise.map with the pipelines' rejections swallowed.
PromiseMapRejected_never(pcs) == FALSE
\* A rejection that cancels the sibling pipelines.
afterFailure_abortAll(pcs, i) ==
  [k \in DOMAIN pcs |-> IF k = i \/ pcs[k] # "Ready" THEN "Failed" ELSE pcs[k]]

\* Promise.map over the pipelines: fulfilled once every pipeline is
\* fulfilled, rejected as soon as one is rejected.
PromiseMapFulfilled(pcs) == \A i \in DOMAIN pcs : pcs[i] = "Ready"
PromiseMapRejected(pcs) == \E i \in DOMAIN pcs : pcs[i] = "Failed"

\* A rejection after which the chain of pipeline i goes on.
afterFailure_continue(pcs, i) == [pcs EXCEPT ![i] = thenNext(@)]

\* The positions of the pipelines after pipeline i has rejected.
afterFailure(pcs, i) == [pcs EXCEPT ![i] = "Failed"]

\* Project.build up to its first asynchronous step: dirForBuild is computed
\* first and its throw ends the call before anything is spawned or created;
\* otherwise configure is called, whose first step creates the build
\* directory.
projectBuild(r, build) ==
  IF dirForBuild(r, build) = Thrown
  THEN [projPc |-> "Threw", result |-> Rejected(NotImplemented)]
  ELSE [projPc |-> "ConfigureMkdir", result |-> Pending]

\* project.build called without waiting for Promise.map.
joinProject_noBarrier(pcs) ==
  IF projPc = "Idle" THEN projectBuild(root, buildSettings).projPc ELSE projPc

\* The handler chained on Promise.map: project.build is called when the map
\* is fulfilled; the top-level promise is rejected when the map is, or when
\* project.build throws.
joinProject(pcs) ==
  IF result.state = "pending" /\ projPc = "Idle" /\ PromiseMapFulfilled(pcs)
  THEN projectBuild(root, buildSettings).projPc ELSE projPc

joinResult(pcs) ==
  IF result.state = "pending" /\ PromiseMapRejected(pcs)
  THEN Rejected(ProcessFailed)
  ELSE IF result.state = "pending" /\ projPc = "Idle" /\ PromiseMapFulfilled(pcs)
  THEN projectBuild(root, buildSettings).result
  ELSE result

\* ------------------------------------------------------------------ Project.load and build
\* load swallowing the read and parse errors.
load_swallow(file) == NoError

\* Project.load: the read fails on a missing file and JSON.parse throws on a
\* malformed one; the value is the rejection reason, or NoError.
load(file) ==
  IF file.kind = "missing" THEN ReadError
  ELSE IF file.kind = "malformed" THEN ParseError
  ELSE NoError

\* The read of the manifest has settled. On success the handler of the
\* top-level build runs at once: it resolves every descriptor, then starts
\* every pipeline (each spawns its clone), and with no dependency at all
\* goes straight on to project.build.
Load ==
  /\ phase = "load"
  /\ LET e == load(raftfile)
         descs == raftfile.dependencies
         n == Len(descs)
         r == IF e # NoError THEN e ELSE mapCreateDependency(descs)
     IN IF r # NoError
        THEN /\ phase' = IF e # NoError THEN "loadfailed" ELSE "then"
             /\ result' = Rejected(r)
             /\ UNCHANGED <<deps, reliable, pc, started, completed, failedAt,
                            projPc, spawned>>
        ELSE /\ phase' = "then"
             /\ deps' = descs
             /\ reliable' \in [1..n -> BOOLEAN]
             /\ pc' = [i \in 1..n |-> getDependency.pc]
             /\ started' = [i \in 1..n |-> getDependency.started]
             /\ completed' = [i \in 1..n |-> {}]
             /\ failedAt' = [i \in 1..n |-> "none"]
             /\ spawned' = {gitClone(i, descs[i].name) : i \in 1..n}
             /\ projPc' = joinProject(pc')
             /\ result' = joinResult(pc')
  /\ UNCHANGED <<projExits, unit, cwd, buildSettings, fs, raftfile, paths, root>>

\* ------------------------------------------------------------------ pipeline steps
\* The command pipeline i waits for exits: with 0 the chain moves on, and a
\* finished stage hands over to the next one; otherwise the pipeline rejects.
ProcessExit(i) ==
  /\ i \in DOMAIN pc
  /\ pc[i] \in Running
  /\ \E ok \in (IF reliable[i] THEN {TRUE} ELSE BOOLEAN) :
       LET at == pc[i]
           nxt == thenNext(at)
           pcs == IF ok THEN [pc EXCEPT ![i] = nxt] ELSE afterFailure(pc, i)
       IN /\ pc' = pcs
          /\ IF ok
             THEN /\ completed' =
                       IF StageOf(nxt) # StageOf(at)
                       THEN [completed EXCEPT ![i] = @ \cup {StageOf(at)}]
                       ELSE completed
                  /\ started' =
                       IF StageOf(nxt) \notin {StageOf(at), "none"}
                       THEN [started EXCEPT ![i] = @ \cup {StageOf(nxt)}]
                       ELSE started
                  /\ failedAt' = failedAt
             ELSE /\ failedAt' = [failedAt EXCEPT ![i] = StageOf(at)]
                  /\ UNCHANGED <<started, completed>>
          /\ projPc' = joinProject(pcs)
          /\ result' = joinResult(pcs)
  /\ UNCHANGED <<projExits, unit, cwd, buildSettings, fs, raftfile, phase, paths, root, deps,
                 reliable, spawned>>

\* createDirectory of the working directory has settled: System.execute
\* spawns the command. The tree below the project root is writable, so
\* mkdirp reports no error here.
CreateDirectoryDone(i) ==
  /\ i \in DOMAIN pc
  /\ pc[i] \in Creating
  /\ LET cmd == depCommand(i, deps[i].name, pc[i])
     IN /\ fs' = createDirectory(cmd.cwd, fs, FALSE).fs
        /\ spawned' = spawned \cup {cmd}
  /\ pc' = [pc EXCEPT ![i] = spawnNext(@)]
  /\ UNCHANGED <<projExits, unit, cwd, buildSettings, raftfile, phase, paths, root, deps,
                 reliable, started, completed, failedAt, projPc, result>>

PipelineStep(i) == ProcessExit(i) \/ CreateDirectoryDone(i)

\* ------------------------------------------------------------------ Project.build
ProjCreateDirectoryDone ==
  /\ projPc \in ProjCreating
  /\ LET cmd == projCommand(projPc)
     IN /\ fs' = createDirectory(cmd.cwd, fs, FALSE).fs
        /\ spawned' = spawned \cup {cmd}
  /\ projPc' = IF projPc = "ConfigureMkdir" THEN "Configure" ELSE "Make"
  /\ UNCHANGED <<projExits, unit, cwd, buildSettings, raftfile, phase, paths, root, deps,
                 reliable, pc, started, completed, failedAt, result>>

\* A failed configure that is followed by the build all the same.
projThen_ignoreConfigure(at, ok) ==
  IF at = "Configure" THEN "MakeMkdir"
  ELSE IF ok THEN "Done" ELSE "MakeFailed"

\* CMake.configure(...).then(() => CMake.build(...)): the build is called
\* from the handler of a configure that exited 0; a command that fails
\* rejects the chain.
projThen(at, ok) ==
  IF at = "Configure" THEN (IF ok THEN "MakeMkdir" ELSE "ConfigureFailed")
  ELSE IF ok THEN "Done" ELSE "MakeFailed"

\* The command Project.build waits for exits.
ProjProcessExit ==
  /\ projPc \in ProjRunning
  /\ \E ok \in BOOLEAN :
       /\ projPc' = projThen(projPc, ok)
       /\ projExits' = Append(projExits, ok)
       /\ result' =
            IF result.state # "pending" THEN result
            ELSE IF projPc' \in ProjFailed THEN Rejected(ProcessFailed)
            ELSE IF projPc' = "Done" THEN Fulfilled
            ELSE result
  /\ UNCHANGED <<unit, cwd, buildSettings, fs, raftfile, phase, paths, root, deps,
                 reliable, pc, started, completed, failedAt, spawned>>

\* ------------------------------------------------------------------ single calls
\* The directories a single call is made on.
UnitDirs == StartPaths \ {MkPath(TRUE, <<>>)}

\* The Build values Project.build may be handed, deploy builds included.
Builds ==
  {[buildSettingsFor(o) EXCEPT !.isDeploy = d] : o \in PlatformOptions, d \in BOOLEAN}

\* A function of the tool is called on its own, outside a build:
\* Path.createDirectory on a directory of which any upper part exists,
\* System.execute with such a directory as cwd or with no cwd, or
\* Project.build of a loaded project with any Build.
InitCalls ==
  /\ cwd = BuildCwd /\ raftfile = Json(<<>>)
  /\ phase = "unit"
  /\ NothingRun
  /\ \/ \E d \in UnitDirs : \E A \in AncestorsOrSelf(d) :
          /\ fs = AncestorsOrSelf(A)
          /\ root = NoRoot
          /\ buildSettings = buildSettingsFor("HOST")
          /\ unit = [NoUnit EXCEPT !.op = "createDirectory", !.dir = d, !.existed = (A = d)]
     \/ \E d \in UnitDirs : \E A \in AncestorsOrSelf(d) :
          /\ fs = AncestorsOrSelf(A) \cup AncestorsOrSelf(cwd)
          /\ root = NoRoot
          /\ buildSettings = buildSettingsFor("HOST")
          /\ \E hasCwd, tagGiven \in BOOLEAN :
               unit = [execute(hasCwd, tagGiven, d) EXCEPT !.existed = (hasCwd /\ d \in fs)]
     \/ /\ root \in StartPaths
        /\ fs = AncestorsOrSelf(root) \cup {append(root, RAFT_DIR)}
        /\ buildSettings \in Builds
        /\ unit = [NoUnit EXCEPT !.op = "projectBuild", !.pc = "Call"]

\* The errors mkdirp may report on p: none when p exists already.
mkdirpErrors(p) == IF p \in fs THEN {FALSE} ELSE BOOLEAN

\* One call of Path.createDirectory returns, mkdirp having reported an error
\* or not.
CreateDirectoryCall ==
  /\ unit.op = "createDirectory"
  /\ Len(unit.calls) < MaxCalls
  /\ \E err \in mkdirpErrors(unit.dir) :
       LET r == createDirectory(unit.dir, fs, err)
       IN /\ fs' = r.fs
          /\ unit' = [unit EXCEPT !.calls = Append(@, [ret |-> r.created, err |-> err])]
  /\ UNCHANGED <<cwd, buildSettings, raftfile, phase, paths, root, deps, reliable,
                 pc, started, completed, failedAt, projPc, projExits, spawned, result>>

\* System.execute failing when the working directory was not created.
executeAfterStart_strict(created) == IF created THEN "Running" ELSE "Rejected"

\* System.execute once start has resolved: the value of createDirectory is
\* used for the log line only, the command is spawned in either case.
executeAfterStart(created) == "Running"

\* System.execute with cwd: createDirectory has settled and the handler
\* chained on it calls child_process.exec.
ExecuteCreateDirectoryDone ==
  /\ unit.op = "execute"
  /\ unit.pc = "Mkdir"
  /\ \E err \in mkdirpErrors(unit.dir) :
       LET r == createDirectory(unit.dir, fs, err)
           nxt == executeAfterStart(r.created)
       IN /\ fs' = r.fs
          /\ unit' = [unit EXCEPT !.calls = Append(@, [ret |-> r.created, err |-> err]),
                                  !.pc = nxt, !.log = logCreated(unit, r.created)]
          /\ spawned' = IF nxt = "Running"
                        THEN spawned \cup {Proc(0, Command, unit.dir, <<>>)}
                        ELSE spawned
  /\ UNCHANGED <<cwd, buildSettings, raftfile, phase, paths, root, deps, reliable,
                 pc, started, completed, failedAt, projPc, projExits, result>>

\* System.execute without cwd: the command runs in the current directory.
ExecuteStart ==
  /\ unit.op = "execute"
  /\ unit.pc = "Start"
  /\ unit' = [unit EXCEPT !.pc = "Running"]
  /\ spawned' = spawned \cup {Proc(0, Command, cwd, <<>>)}
  /\ UNCHANGED <<cwd, buildSettings, fs, raftfile, phase, paths, root, deps, reliable,
                 pc, started, completed, failedAt, projPc, projExits, result>>

\* The command exits; it cannot be run in a directory that does not exist.
ExecuteExit ==
  /\ unit.op = "execute"
  /\ unit.pc = "Running"
  /\ \E ok \in (IF \A c \in spawned : c.cwd \in fs THEN BOOLEAN ELSE {FALSE}) :
       unit' = [unit EXCEPT !.pc = IF ok THEN "Fulfilled" ELSE "Rejected",
                            !.exit = IF ok THEN "ok" ELSE "fail",
                            !.log = logExit(unit, ok)]
  /\ UNCHANGED <<cwd, buildSettings, fs, raftfile, phase, paths, root, deps, reliable,
                 pc, started, completed, failedAt, projPc, projExits, spawned, result>>

\* Project.build is called on the project.
ProjectBuildCall ==
  /\ unit.op = "projectBuild"
  /\ unit.pc = "Call"
  /\ LET r == projectBuild(root, buildSettings)
     IN /\ projPc' = r.projPc
        /\ result' = r.result
  /\ unit' = [unit EXCEPT !.pc = "Called"]
  /\ UNCHANGED <<cwd, buildSettings, fs, raftfile, phase, paths, root, deps, reliable,
                 pc, started, completed, failedAt, projExits, spawned>>

NextCalls ==
  \/ CreateDirectoryCall
  \/ ExecuteCreateDirectoryDone
  \/ ExecuteStart
  \/ ExecuteExit
  \/ ProjectBuildCall
  \/ ProjCreateDirectoryDone
  \/ ProjProcessExit

SpecCalls == InitCalls /\ [][NextCalls]_vars

\* ------------------------------------------------------------------ specification
Next ==
  \/ FindWalk
  \/ FindScan
  \/ Load
  \/ \E i \in 1..MaxDeps : ProcessExit(i)
  \/ \E i \in 1..MaxDeps : CreateDirectoryDone(i)
  \/ ProjCreateDirectoryDone
  \/ ProjProcessExit

Spec == Init /\ [][Next]_vars

SpecResolve == InitResolve /\ [][Next]_vars

NextFind == FindWalk \/ FindScan
SpecFind == InitFind /\ [][NextFind]_vars

SpecDirs == InitDirs /\ [][Next]_vars

\* Every command terminates and the event loop delivers its callback.
FairSpec == Spec /\ \A i \in 1..MaxDeps : WF_vars(PipelineStep(i))

\* ------------------------------------------------------------------ properties
BuildPositions == {"ConfigureMkdir", "Configure", "MakeMkdir", "Make"}
InstallPositions == {"InstallMkdir", "Install"}
Active == Running \cup Creating
hasMarker(A) == append(A, RAFT_DIR) \in fs
FindEnded == phase # "find"
HandlerRan == phase = "then"

\* C1: within each pipeline, under every interleaving, the build stage is
\* started (and its commands spawned) only after the download has completed,
\* and the install stage only after the build has completed.
C1_PipelineOrdering ==
  \A i \in DOMAIN pc :
    /\ ("build" \in started[i] \/ pc[i] \in BuildPositions
          \/ \E c \in spawned : c.owner = i /\ c.cmd \in {"cmake", "make -j8"})
       => "download" \in completed[i]
    /\ ("install" \in started[i] \/ pc[i] \in InstallPositions
          \/ \E c \in spawned : c.owner = i /\ c.cmd = "make install")
       => "build" \in completed[i]

\* C1 witness: one pipeline has reached its install stage while another is
\* still downloading.
C1_Witness ==
  \E i, j \in DOMAIN pc :
    i # j /\ pc[i] = "Install" /\ pc[j] = "Clone" /\ "install" \in started[i]

\* C2: once Project.build has started (or spawned anything), every
\* dependency pipeline is at Ready.
C2_ProjectAfterAllReady ==
  (projPc # "Idle" \/ \E c \in spawned : c.owner = 0)
    => \A i \in DOMAIN pc : pc[i] = "Ready" /\ "install" \in completed[i]

\* C2 witness: the project configure runs after two pipelines got Ready.
C2_Witness == projPc = "Configure" /\ Len(pc) >= 2

\* C3: when a stage of some pipeline has failed, Project.build has not been
\* started and spawns nothing, and the top-level promise is rejected.
C3_FailureBlocksProject ==
  (\E i \in DOMAIN pc : pc[i] = "Failed")
    => /\ projPc = "Idle"
       /\ ~\E c \in spawned : c.owner = 0
       /\ result.state = "rejected"

\* C3 witness: every pipeline has settled, one failed in its build stage and
\* another got Ready.
C3_Witness ==
  /\ \A i \in DOMAIN pc : pc[i] \in Settled
  /\ \E i, j \in DOMAIN pc : pc[i] = "Failed" /\ failedAt[i] = "build" /\ pc[j] = "Ready"

\* C4: a pipeline whose own commands all exit 0 reaches Ready, whatever its
\* siblings do and whenever they fail.
C4_SiblingsProceed ==
  \A i \in 1..MaxDeps : (i \in DOMAIN pc /\ reliable[i]) ~> (i \in DOMAIN pc /\ pc[i] = "Ready")

\* C4 witness: a sibling has failed and the top-level promise is rejected
\* while a pipeline whose commands succeed is running its install command.
C4_Witness ==
  \E i, j \in DOMAIN pc :
    /\ pc[i] = "Failed" /\ result.state = "rejected"
    /\ reliable[j] /\ pc[j] = "Install"

\* C5 as claimed: the top-level promise is settled only when every pipeline
\* has settled.
C5_ResultWaitsForAll ==
  result.state # "pending" => \A i \in DOMAIN pc : pc[i] \in Settled

\* C5 amended: the top-level promise is fulfilled only when every pipeline
\* is Ready, and it is settled while a pipeline is still running only as a
\* rejection, one of the pipelines having failed.
C5_ResultWaitsOrFailed ==
  /\ result.state = "fulfilled" => \A i \in DOMAIN pc : pc[i] = "Ready"
  /\ (result.state # "pending" /\ \E i \in DOMAIN pc : pc[i] \in Active)
       => (result.state = "rejected" /\ \E i \in DOMAIN pc : pc[i] = "Failed")

\* C5 witness: the top-level promise is rejected while a sibling of the failed
\* pipeline is still cloning.
C5_Witness ==
  /\ result.state = "rejected"
  /\ \E i, j \in DOMAIN pc : pc[i] = "Failed" /\ pc[j] = "Clone"

\* C6: the project found is rooted at the candidate nearest to the starting
\* path among those holding the marker directory.
C6_NearestFirst ==
  root # NoRoot
    => /\ root \in AncestorsOrSelf(cwd)
       /\ hasMarker(root)
       /\ \A A \in AncestorsOrSelf(cwd) : hasMarker(A) => Len(A.segs) <= Len(root.segs)

\* C6 witness: a project was found although an outer directory holds the
\* marker directory too.
C6_Witness ==
  /\ root # NoRoot
  /\ \E A \in AncestorsOrSelf(cwd) : hasMarker(A) /\ Len(A.segs) < Len(root.segs)

\* C7 as claimed: once the search has ended, the nearest directory holding
\* the marker directory, the filesystem root included, is the root of the
\* project found.
C7_FindUpToFilesystemRoot ==
  FindEnded =>
    \A A \in AncestorsOrSelf(cwd) :
      (hasMarker(A) /\ \A B \in AncestorsOrSelf(cwd) : hasMarker(B) => Len(B.segs) <= Len(A.segs))
        => root = A

C9_ManifestInvalidStopsBuild ==
  (phase \notin {"find", "load"} /\ root # NoRoot /\ raftfile.kind # "json")
    => /\ phase = "loadfailed"
       /\ result.state = "rejected" /\ result.reason \in {ReadError, ParseError}
       /\ spawned = {} /\ pc = <<>> /\ projPc = "Idle"

\* C9 witness: the manifest file is missing at the discovered root.
C9_Witness == phase = "loadfailed" /\ raftfile = Missing /\ result.reason = ReadError

hasUnknownBuildSystem == \E k \in DOMAIN raftfile.dependencies :
  raftfile.dependencies[k].buildSystem # "cmake"
firstUnknownBuildSystem == CHOOSE k \in DOMAIN raftfile.dependencies :
  /\ raftfile.dependencies[k].buildSystem # "cmake"
  /\ \A j \in 1..(k - 1) : raftfile.dependencies[j].buildSystem = "cmake"

\* C10 as claimed: a manifest with an unrecognized buildSystem tag is
\* rejected with the unknown-build-system error before anything is spawned.
C10_UnknownBuildSystemFails ==
  (HandlerRan /\ hasUnknownBuildSystem)
    => (result = Rejected(UnknownBuildSystem) /\ spawned = {})

\* C10 amended: such a manifest is rejected before anything is spawned and
\* before any pipeline starts; the error is the unknown-build-system one
\* unless the descriptor with the tag, or one before it, has no repository
\* type, and then it is the unknown-repository one.
C10_UnknownBuildSystemOrRepository ==
  (HandlerRan /\ hasUnknownBuildSystem)
    => /\ result.state = "rejected"
       /\ spawned = {} /\ pc = <<>> /\ projPc = "Idle"
       /\ result.reason =
            IF \E j \in 1..firstUnknownBuildSystem :
                 raftfile.dependencies[j].repository.type = NoType
            THEN UnknownRepository ELSE UnknownBuildSystem

\* C10 witness: the unrecognized tag follows a valid descriptor.
C10_Witness ==
  /\ HandlerRan /\ hasUnknownBuildSystem
  /\ firstUnknownBuildSystem >= 2
  /\ result.reason = UnknownBuildSystem

\* C11 as claimed: a descriptor whose repository type is missing or is not
\* "git" is rejected with the unknown-repository error; no dependency object
\* is made of it and nothing is cloned.
C11_UnrecognizedTypeRejected ==
  (HandlerRan /\ raftfile.dependencies # <<>>
     /\ raftfile.dependencies[1].repository.type # "git")
    => (result = Rejected(UnknownRepository) /\ deps = <<>> /\ spawned = {})

\* C12 as claimed: under one project root, two distinct (name, platform,
\* architecture) triples have different dependency build directories and
\* different install directories.
C12_DirectoriesInjective ==
  root # NoRoot =>
    \A n1, n2 \in Names : \A b1, b2 \in Targets :
      <<n1, b1>> # <<n2, b2>>
        => /\ dirForDependencyBuild(root, n1, b1) # dirForDependencyBuild(root, n2, b2)
           /\ dirForDependencyInstall(root, b1) # dirForDependencyInstall(root, b2)

\* C12 amended: for names that are plain path segments, two distinct triples
\* have different build directories, while the install directory depends on
\* the platform and the architecture alone: it differs exactly when these
\* differ and is the same for every name.
C12_BuildInjectiveInstallPerTarget ==
  root # NoRoot =>
    \A n1, n2 \in Names : \A b1, b2 \in Targets :
      /\ <<n1, b1>> # <<n2, b2>>
           => dirForDependencyBuild(root, n1, b1) # dirForDependencyBuild(root, n2, b2)
      /\ (dirForDependencyInstall(root, b1) = dirForDependencyInstall(root, b2)) <=> (b1 = b2)

\* C12 witness: two dependencies are configured in different build
\* directories with the same install prefix.
C12_Witness ==
  \E c1, c2 \in spawned :
    /\ c1.owner = 1 /\ c2.owner = 2 /\ c1.cmd = "cmake" /\ c2.cmd = "cmake"
    /\ c1.cwd = dirForDependencyBuild(root, deps[1].name, buildSettings)
    /\ c2.cwd = dirForDependencyBuild(root, deps[2].name, buildSettings)
    /\ c1.cwd # c2.cwd
    /\ c1.args[2] = c2.args[2]
    /\ c1.args[2] = dirForDependencyInstall(root, buildSettings)

\* The commands of the dependency pipelines, and the pairs of them that
\* belong to two different manifest entries.
DepProcs == {c \in spawned : c.owner # 0}
installPrefix(c) == c.args[2]

\* C13 as claimed: two entries of one manifest never use the same directory:
\* the directories cloned into differ, the build working directories differ
\* and the install directories handed to configure differ.
C13_PipelinesDisjoint ==
  \A c1, c2 \in DepProcs :
    c1.owner # c2.owner
      => /\ (c1.cmd = "git clone" /\ c2.cmd = "git clone") => c1.args[1] # c2.args[1]
         /\ (c1.cmd # "git clone" /\ c2.cmd # "git clone") => c1.cwd # c2.cwd
         /\ (c1.cmd = "cmake" /\ c2.cmd = "cmake") => installPrefix(c1) # installPrefix(c2)

\* C13 amended: two entries use the same source directory, and the same
\* build working directory, exactly when they carry the same name; the
\* install directory is the one of the target and the same for all entries.
C13_DisjointByNameSharedInstall ==
  \A c1, c2 \in DepProcs :
    c1.owner # c2.owner
      => /\ (c1.cmd = "git clone" /\ c2.cmd = "git clone")
              => ((c1.args[1] = c2.args[1]) <=> (deps[c1.owner].name = deps[c2.owner].name))
         /\ (c1.cmd # "git clone" /\ c2.cmd # "git clone")
              => ((c1.cwd = c2.cwd) <=> (deps[c1.owner].name = deps[c2.owner].name))
         /\ (c1.cmd = "cmake" /\ c2.cmd = "cmake")
              => /\ installPrefix(c1) = installPrefix(c2)
                 /\ installPrefix(c1) = dirForDependencyInstall(root, buildSettings)

\* C13 witness: two entries with different names have been cloned,
\* configured and are being installed.
C13_Witness ==
  /\ Len(deps) >= 2 /\ deps[1].name # deps[2].name
  /\ pc[1] = "Install" /\ pc[2] = "Install"
  /\ \E c1, c2 \in DepProcs :
       c1.owner = 1 /\ c2.owner = 2 /\ c1.cmd = "make install" /\ c2.cmd = "make install"

\* C14 as claimed: createDirectory called twice on a directory that did not
\* exist, mkdirp reporting no error, returns true the first time and false
\* the second, and the directory exists after each call.
C14_TrueThenFalse ==
  (unit.op = "createDirectory" /\ ~unit.existed
     /\ \A k \in DOMAIN unit.calls : ~unit.calls[k].err)
    => /\ Len(unit.calls) >= 1 => (unit.calls[1].ret /\ unit.dir \in fs)
       /\ Len(unit.calls) >= 2 => (~unit.calls[2].ret /\ unit.dir \in fs)

\* The scenario of C15: the manifest holds the one git/cmake dependency foo
\* and the target is host/host.
C15_Scenario ==
  /\ raftfile = Json(<<Descriptor("foo", "git", "cmake")>>)
  /\ buildSettings.platform = "host" /\ buildSettings.architecture = "host"
  /\ root # NoRoot

\* The processes of the scenario in the order claimed, below the root r.
C15_Expected(r) ==
  LET at(segs) == MkPath(r.abs, r.segs \o segs)
      src == at(<<"Raft", "libs", "src", "foo">>)
      bld == at(<<"Raft", "libs", "build", "host", "host", "foo">>)
      inst == at(<<"Raft", "libs", "install", "host", "host">>)
  IN << Proc(1, "git clone", cwd, <<src>>),
        Proc(1, "cmake", bld, <<src, inst>>),
        Proc(1, "make -j8", bld, <<>>),
        Proc(1, "make install", bld, <<>>),
        Proc(0, "cmake", at(<<"build">>),
             <<r, at(<<"Raft", "libs", "install", "host", "host", "include">>),
               at(<<"Raft", "libs", "install", "host", "host", "lib">>), at(<<"install">>)>>),
        Proc(0, "make -j8", at(<<"build">>), <<>>) >>

\* C15: in the scenario the processes spawned so far are always the first k
\* of: clone into <root>/Raft/libs/src/foo; configure, make and make install
\* in <root>/Raft/libs/build/host/host/foo with install prefix
\* <root>/Raft/libs/install/host/host; project configure and project make in
\* <root>/build. Nothing else is spawned and, when every command has
\* succeeded, all six have been.
C15_ScenarioSpawns ==
  C15_Scenario =>
    LET E == C15_Expected(root)
    IN /\ \E k \in 0..Len(E) : spawned = {E[j] : j \in 1..k}
       /\ projPc = "Done" => spawned = {E[j] : j \in 1..Len(E)}

\* C15 witness: the scenario has run to the end, every command having
\* exited 0, and six processes were spawned.
C15_Witness ==
  /\ C15_Scenario /\ projPc = "Done" /\ result = Fulfilled
  /\ pc = <<"Ready">> /\ Cardinality(spawned) = 6

\* C16: Project.build called with a deploy Build fails with the
\* not-implemented error; no configure or build command is spawned and the
\* project build directory is not created.
C16_DeployNotImplemented ==
  (unit.op = "projectBuild" /\ buildSettings.isDeploy)
    => /\ spawned = {}
       /\ append(root, BUILD_DIR) \notin fs
       /\ projPc \in {"Idle", "Threw"}
       /\ unit.pc = "Called" => (projPc = "Threw" /\ result = Rejected(NotImplemented))

\* C16 witness: Project.build has been called with a deploy Build on a
\* project two levels down.
C16_Witness ==
  /\ unit.op = "projectBuild" /\ unit.pc = "Called" /\ buildSettings.isDeploy
  /\ Len(root.segs) = 2 /\ result = Rejected(NotImplemented)

\* The commands pipeline i has spawned.
procsOf(i) == {c \in spawned : c.owner = i}

\* A pipeline whose stage failed stands at Failed with no later stage
\* started and no command of a later stage spawned.
C17_Aborted ==
  \A i \in DOMAIN pc :
    /\ failedAt[i] # "none" => pc[i] = "Failed"
    /\ pc[i] = "Ready" => failedAt[i] = "none"
    /\ failedAt[i] = "download"
         => (started[i] = {"download"} /\ \A c \in procsOf(i) : c.cmd = "git clone")
    /\ failedAt[i] = "build"
         => ("install" \notin started[i] /\ \A c \in procsOf(i) : c.cmd # "make install")

\* A failed pipeline stays failed: it starts nothing and spawns nothing.
C17_Stays ==
  \A i \in DOMAIN pc :
    pc[i] = "Failed"
      => (pc'[i] = "Failed" /\ started'[i] = started[i]
          /\ failedAt'[i] = failedAt[i]
          /\ {c \in spawned' : c.owner = i} = procsOf(i))

\* C17: within one pipeline a stage failure aborts the pipeline: after a
\* failed download neither build nor install is started, after a failed
\* build (configure or make) install is not started, the pipeline never
\* reaches Ready, and nothing of it, the failed stage included, is run again.
C17_FailureAbortsPipeline == C17_Aborted /\ [][C17_Aborted' /\ C17_Stays]_vars

\* C17 witness: the make of a pipeline has failed after its configure
\* succeeded, and a sibling has since gone on to its install.
C17_Witness ==
  \E i, j \in DOMAIN pc :
    /\ pc[i] = "Failed" /\ failedAt[i] = "build"
    /\ \E c \in procsOf(i) : c.cmd = "make -j8"
    /\ pc[j] = "Install"

\* C18: System.execute with a cwd spawns the command only after the one
\* attempt to create the working directory has settled; when the directory
\* did not exist and the creation succeeded it exists once the command is
\* spawned; and after a failed creation the command is spawned all the same,
\* the invocation failing only if the command itself does.
C18_SpawnAfterCreateDirectory ==
  (unit.op = "execute" /\ unit.hasCwd)
    => /\ spawned # {} => Len(unit.calls) = 1
       /\ Len(unit.calls) = 1 => spawned = {Proc(0, "command", unit.dir, <<>>)}
       /\ (spawned # {} /\ ~unit.existed /\ unit.calls[1].ret) => unit.dir \in fs
       /\ unit.pc = "Rejected" => unit.exit = "fail"

\* C18 witness: the working directory, two levels down and absent, was
\* created and the command ran in it to a successful end.
C18_Witness ==
  /\ unit.op = "execute" /\ unit.hasCwd /\ ~unit.existed /\ Len(unit.dir.segs) = 2
  /\ Len(unit.calls) = 1 /\ unit.calls[1].ret
  /\ unit.pc = "Fulfilled"

\* C19 as claimed: the upward walk ends for every starting path, absolute or
\* relative: it makes no more candidates than the start has directories
\* above it, a candidate that is its own parent (where the walk can go no
\* further) has isRoot true, and isRoot is true only of a candidate that is
\* its own parent.
C19_WalkTerminates ==
  /\ Len(paths) <= Len(cwd.segs) + 1
  /\ \A k \in DOMAIN paths :
       /\ parent(paths[k]) = paths[k] => isRoot(paths[k])
       /\ isRoot(paths[k]) => parent(paths[k]) = paths[k]

\* The commands Project.build has spawned.
projProcs == {c \in spawned : c.owner = 0 /\ c.cmd \in {"cmake", "make -j8"}}
projMakeSpawned == \E c \in projProcs : c.cmd = "make -j8"

\* C20: Project.build runs configure, then build, both in the project build
\* directory: the build command is spawned only after configure has exited
\* 0, never when configure failed, and the failure of either command
\* rejects the promise of Project.build, which is fulfilled only when both
\* have exited 0.
C20_ConfigureThenBuild ==
  /\ \A c \in projProcs : c.cwd = append(root, BUILD_DIR)
  /\ projMakeSpawned => (Len(projExits) >= 1 /\ projExits[1])
  /\ (Len(projExits) >= 1 /\ ~projExits[1]) => (~projMakeSpawned /\ Len(projExits) = 1)
  /\ (\E k \in DOMAIN projExits : ~projExits[k]) => result.state = "rejected"
  /\ (projPc # "Idle" /\ result.state = "fulfilled") => projExits = <<TRUE, TRUE>>

\* C20 witness: the project was configured, its make was spawned in the
\* build directory and failed.
C20_Witness ==
  /\ projPc = "MakeFailed" /\ projExits = <<TRUE, FALSE>>
  /\ projMakeSpawned /\ result = Rejected(ProcessFailed)

\* C21 as claimed: when the command of a System.execute has failed, the log
\* holds a line carrying the tag of the invocation; and the line of a
\* successful end is logged exactly for the invocations that succeeded.
C21_FailureLogged ==
  unit.op = "execute"
    => /\ unit.pc = "Rejected" => \E k \in DOMAIN unit.log : unit.log[k].tag = unit.tag
       /\ (\E k \in DOMAIN unit.log : unit.log[k].msg = "Finished successfullly")
            <=> unit.pc = "Fulfilled"

\* q is d or lies below it.
isUnder(q, d) ==
  /\ q.abs = d.abs /\ Len(q.segs) >= Len(d.segs)
  /\ SubSeq(q.segs, 1, Len(d.segs)) = d.segs

\* The include and library directories handed to the project's configure.
raftIncludeDir(c) == c.args[2]
raftLibDir(c) == c.args[3]

\* C22: the include and library directories the project's configure is
\* given are the install prefix given to every dependency's configure plus
\* "include" and "lib", and neither lies in the install tree of another
\* (platform, architecture) pair.
C22_ProjectReadsInstallTree ==
  \A p \in projProcs :
    p.cmd = "cmake"
      => /\ \A c \in DepProcs :
              c.cmd = "cmake"
                => /\ raftIncludeDir(p) = MkPath(installPrefix(c).abs,
                                                 installPrefix(c).segs \o <<"include">>)
                   /\ raftLibDir(p) = MkPath(installPrefix(c).abs,
                                             installPrefix(c).segs \o <<"lib">>)
         /\ \A b \in Targets :
              (b.platform # buildSettings.platform
                 \/ b.architecture # buildSettings.architecture)
                => /\ ~isUnder(raftIncludeDir(p), dirForDependencyInstall(root, b))
                   /\ ~isUnder(raftLibDir(p), dirForDependencyInstall(root, b))
         /\ isUnder(raftIncludeDir(p), dirForDependencyInstall(root, buildSettings))
         /\ isUnder(raftLibDir(p), dirForDependencyInstall(root, buildSettings))

\* C22 witness: an android build of two dependencies has got to the
\* project's configure.
C22_Witness ==
  /\ buildSettings.platform = "android" /\ Len(deps) >= 2
  /\ projPc = "Configure"
  /\ \E p \in projProcs : p.cmd = "cmake"
  /\ \E c \in DepProcs : c.owner = 2 /\ c.cmd = "cmake"

====
